---- MODULE Spec2Model ----
(***************************************************************************)
(* A model of dense_strings (src/src/lib.rs): DenseStrings, an immutable   *)
(* array of strings kept as one byte buffer `data` plus the offsets        *)
(* `indices` at which every string but the first begins, with its lookup,  *)
(* iterator, equality, hashing and conversions.                            *)
(*                                                                         *)
(* A Rust `str` is modelled as what it is in memory, the sequence of its   *)
(* UTF-8 bytes: `str::bytes()` walks exactly these bytes and               *)
(* `from_utf8_unchecked` is a reinterpretation of a byte slice that        *)
(* changes no byte.  Rust positions are 0-based and are kept 0-based; the  *)
(* translation to TLA+'s 1-based sequences happens where a sequence is     *)
(* read.                                                                   *)
(***************************************************************************)
EXTENDS Integers, Sequences, FiniteSets, TLC

VARIABLES strings, vec, strings2, other, iters, ret

vars == <<strings, vec, strings2, other, iters, ret>>

(***************************************************************************)
(* Bounds of the model.                                                    *)
(***************************************************************************)
\* longest input string, in bytes
MaxChars == 1
\* longest input sequence of the lookup specification
MaxStrings == 4
\* longest input sequence of the iterator specification
MaxIterStrings == 2
\* longest input sequence of either array of the equality specification
MaxEqStrings == 2
\* next() calls the model follows after an iterator's first None
MaxExtraNext == 2

\* the bytes input strings are made of: 'a' and 'b'
Bytes == {97, 98}

\* every sequence over S of length at most n
SeqsUpTo(S, n) == UNION {[1..k -> S] : k \in 0..n}

\* the input strings
Strs == SeqsUpTo(Bytes, MaxChars)

\* the positions the lookups are tried at: every valid one and two past the end
Positions == 0..(MaxStrings + 1)

\* the iterators a caller holds at the same time
IterIds == {1, 2}

(***************************************************************************)
(* Option<T>, and the outcome of a call that may panic.                    *)
(***************************************************************************)
None == <<"None">>
Some(v) == <<"Some", v>>
IsSome(o) == o[1] = "Some"
IsNone(o) == o[1] = "None"
Panic == <<"Panic">>
IsPanic(o) == o[1] = "Panic"
Ok(v) == <<"Ok", v>>

\* <[T]>::get(j).copied(): the element at 0-based position j, or None
SliceGet(s, j) == IF j < Len(s) THEN Some(s[j + 1]) ELSE None

(***************************************************************************)
(* DenseStrings::new: the loop over strings.iter().enumerate(); i is the   *)
(* 1-based position of the string the next iteration handles.              *)
(***************************************************************************)
RECURSIVE new_loop_unguarded(_, _, _, _)
\* new's loop without the `if i != 0` guard: an offset is pushed for the first string too
new_loop_unguarded(strs, i, data, indices) ==
    IF i > Len(strs)
      THEN [data |-> data, indices |-> indices]
      ELSE new_loop_unguarded(strs, i + 1, data \o strs[i], Append(indices, Len(data)))

RECURSIVE new_loop(_, _, _, _)
new_loop(strs, i, data, indices) ==
    IF i > Len(strs)
      THEN [data |-> data, indices |-> indices]
      ELSE new_loop(strs, i + 1, data \o strs[i],
                    IF i - 1 # 0 THEN Append(indices, Len(data)) ELSE indices)

RECURSIVE SkipFirstBytes(_, _, _)
\* the buffer of a loop that extends `data` only inside the `if i != 0` branch
SkipFirstBytes(strs, i, data) ==
    IF i > Len(strs) THEN data
    ELSE SkipFirstBytes(strs, i + 1, IF i - 1 # 0 THEN data \o strs[i] ELSE data)

\* new with the first string's bytes left out of the buffer
new_skip_first(strs) ==
    [data |-> SkipFirstBytes(strs, 1, <<>>), indices |-> new_loop(strs, 1, <<>>, <<>>).indices]

new(strs) == new_loop(strs, 1, <<>>, <<>>)

(***************************************************************************)
(* DenseStrings::get_byte_range                                            *)
(***************************************************************************)
\* get_byte_range with the end test `i < self.indices.len()`: the last string is lost
get_byte_range_strict(self, i) ==
    LET start == IF i = 0 THEN Some(0) ELSE SliceGet(self.indices, i - 1)
    IN  IF IsNone(start) THEN None
        ELSE IF i < Len(self.indices)
               THEN Some(<<start[2], self.indices[i + 1]>>)
               ELSE None

get_byte_range(self, i) ==
    LET \* i.checked_sub(1).map(|i| self.indices.get(i).copied()).unwrap_or(Some(0))
        start == IF i = 0 THEN Some(0) ELSE SliceGet(self.indices, i - 1)
        \* self.indices.get(i).copied().unwrap_or(self.data.len())
        e     == SliceGet(self.indices, i)
        endv  == IF IsSome(e) THEN e[2] ELSE Len(self.data)
        \* (i <= self.indices.len()).then_some(..)
        end   == IF i <= Len(self.indices) THEN Some(endv) ELSE None
    IN  IF IsNone(start) THEN None
        ELSE IF IsNone(end) THEN None
        ELSE Some(<<start[2], end[2]>>)

\* &self.data[start..end]: panics when start > end or end > data.len()
Slice(data, start, end) ==
    IF start > end \/ end > Len(data) THEN Panic
    ELSE Ok(SubSeq(data, start + 1, end))

\* std::str::from_utf8_unchecked: the same bytes, seen as a str
from_utf8_unchecked(bytes) == bytes

(***************************************************************************)
(* DenseStrings::get: Some(s), None, or a panic of the slice expression    *)
(***************************************************************************)
get(self, i) ==
    LET range == get_byte_range(self, i)
    IN  IF IsNone(range) THEN None
        ELSE LET s == Slice(self.data, range[2][1], range[2][2])
             IN  IF IsPanic(s) THEN Panic ELSE Some(from_utf8_unchecked(s[2]))

len(self) == Len(self.indices) + 1

full_str(self) == from_utf8_unchecked(self.data)

(***************************************************************************)
(* Index<usize>::index: self.get(index).unwrap()                           *)
(***************************************************************************)
\* index with unwrap_or_default(): an empty string instead of a panic
index_or_default(self, i) ==
    LET r == get(self, i)
    IN  IF IsPanic(r) THEN Panic ELSE IF IsNone(r) THEN Ok(<<>>) ELSE Ok(r[2])

index(self, i) ==
    LET r == get(self, i)
    IN  IF IsPanic(r) THEN Panic ELSE IF IsNone(r) THEN Panic ELSE Ok(r[2])

(***************************************************************************)
(* Hash::hash: the values handed to the hasher, in order                   *)
(***************************************************************************)
\* hash that also feeds the boundary offsets
hash_with_indices(self) == <<full_str(self), len(self), self.indices>>

hash(self) == <<full_str(self), len(self)>>

(***************************************************************************)
(* PartialEq::eq                                                           *)
(***************************************************************************)
eq(self, o) == full_str(self) = full_str(o) /\ len(self) = len(o)

(***************************************************************************)
(* DenseStringVecIter.  An iterator is [i, out]: its field i, and the      *)
(* results its next() calls returned so far, oldest first.                 *)
(***************************************************************************)
NoIter == [i |-> -1, out |-> <<>>]

\* DenseStrings::iter
iter(self) == [i |-> 0, out |-> <<>>]

\* Iterator::next: the item, and the iterator after the call
next(self, it) ==
    LET item == get(self, it.i)
    IN  [item |-> item, it |-> [i |-> it.i + 1, out |-> Append(it.out, item)]]

\* Iterator::size_hint: `self.vec.len() - self.i` on usize.  When i > len the
\* subtraction overflows: a panic in a build with overflow checks, and the
\* wrapped value usize::MAX + 1 - (i - len), written Wrapped(i - len), without.
size_hint(self, it) ==
    IF it.i <= len(self)
      THEN {<<"Hint", len(self) - it.i, Some(len(self) - it.i)>>}
      ELSE {Panic, <<"Wrapped", it.i - len(self)>>}

(***************************************************************************)
(* From<DenseStrings> for Vec<String>:                                     *)
(* value.iter().map(String::from).collect().  collect() calls next() until *)
(* the first None and pushes a copy of every item.                         *)
(***************************************************************************)
String_from(s) == s

RECURSIVE collect(_, _, _)
collect(self, it, acc) ==
    LET n == next(self, it)
    IN  IF IsSome(n.item) THEN collect(self, n.it, Append(acc, String_from(n.item[2])))
        ELSE IF IsPanic(n.item) THEN Panic
        ELSE Ok(acc)

into_vec(self) == collect(self, iter(self), <<>>)

\* From<Vec<String>> for DenseStrings
from_vec(value) == new(value)

(***************************************************************************)
(* The state.  strings is the input of the array vec; strings2 and other   *)
(* are a second input and its array; iters are the iterators over vec;     *)
(* ret is the last call, its argument and what it returned.                *)
(***************************************************************************)
NoRet == [op |-> "new", arg |-> 0, val |-> <<>>]

Call(op, arg, val) == [op |-> op, arg |-> arg, val |-> val]

Init ==
    /\ strings \in SeqsUpTo(Strs, MaxStrings)
    /\ vec = from_vec(strings)
    /\ strings2 = <<>>
    /\ other = new(strings2)
    /\ iters = [k \in IterIds |-> NoIter]
    /\ ret = NoRet

Get(i) ==
    /\ ret' = Call("get", i, get(vec, i))
    /\ UNCHANGED <<strings, vec, strings2, other, iters>>

Index(i) ==
    /\ ret' = Call("index", i, index(vec, i))
    /\ UNCHANGED <<strings, vec, strings2, other, iters>>

LenCall ==
    /\ ret' = Call("len", 0, len(vec))
    /\ UNCHANGED <<strings, vec, strings2, other, iters>>

FullStr ==
    /\ ret' = Call("full_str", 0, full_str(vec))
    /\ UNCHANGED <<strings, vec, strings2, other, iters>>

IntoVec ==
    /\ ret' = Call("into_vec", 0, into_vec(vec))
    /\ UNCHANGED <<strings, vec, strings2, other, iters>>

Next ==
    \/ \E i \in Positions : Get(i)
    \/ \E i \in Positions : Index(i)
    \/ LenCall
    \/ FullStr
    \/ IntoVec

Spec == Init /\ [][Next]_vars

(***************************************************************************)
(* The iterator specification: a caller holding up to two iterators over   *)
(* one array.                                                              *)
(***************************************************************************)
InitIter ==
    /\ strings \in SeqsUpTo(Strs, MaxIterStrings)
    /\ vec = new(strings)
    /\ strings2 = <<>>
    /\ other = new(strings2)
    /\ iters = [k \in IterIds |-> NoIter]
    /\ ret = NoRet

Live(k) == iters[k].i >= 0

Iter(k) ==
    /\ iters' = [iters EXCEPT ![k] = iter(vec)]
    /\ ret' = Call("iter", k, <<>>)
    /\ UNCHANGED <<strings, vec, strings2, other>>

IterNext(k) ==
    /\ Live(k)
    /\ iters[k].i < len(vec) + MaxExtraNext
    /\ LET n == next(vec, iters[k])
       IN  /\ iters' = [iters EXCEPT ![k] = n.it]
           /\ ret' = Call("next", k, n.item)
    /\ UNCHANGED <<strings, vec, strings2, other>>

SizeHint(k) ==
    /\ Live(k)
    /\ \E h \in size_hint(vec, iters[k]) : ret' = Call("size_hint", k, h)
    /\ UNCHANGED <<strings, vec, strings2, other, iters>>

NextIter ==
    \/ \E k \in IterIds : Iter(k)
    \/ \E k \in IterIds : IterNext(k)
    \/ \E k \in IterIds : SizeHint(k)

SpecIter == InitIter /\ [][NextIter]_vars

(***************************************************************************)
(* The equality specification: two arrays, compared and hashed.            *)
(***************************************************************************)
InitEq ==
    /\ strings \in SeqsUpTo(Strs, MaxEqStrings)
    /\ vec = new(strings)
    /\ strings2 \in SeqsUpTo(Strs, MaxEqStrings)
    /\ other = new(strings2)
    /\ iters = [k \in IterIds |-> NoIter]
    /\ ret = NoRet

Eq ==
    /\ ret' = Call("eq", 0, eq(vec, other))
    /\ UNCHANGED <<strings, vec, strings2, other, iters>>

Hash ==
    /\ ret' = Call("hash", 0, <<hash(vec), hash(other)>>)
    /\ UNCHANGED <<strings, vec, strings2, other, iters>>

NextEq ==
    \/ Eq
    \/ Hash

SpecEq == InitEq /\ [][NextEq]_vars

(***************************************************************************)
(* What the properties are stated with: the concatenation and the byte     *)
(* counts of the input, computed from the input alone.                     *)
(***************************************************************************)
RECURSIVE Concat(_)
Concat(strs) == IF strs = <<>> THEN <<>> ELSE Head(strs) \o Concat(Tail(strs))

\* the bytes of the first k strings together
RECURSIVE SumLen(_, _)
SumLen(strs, k) == IF k = 0 THEN 0 ELSE SumLen(strs, k - 1) + Len(strs[k])

\* get(0), get(1), ..., get(n - 1) of an array, as a sequence of results
Gets(self, n) == [j \in 1..n |-> get(self, j - 1)]

\* the strings of a sequence of Some(s) results
Unwrapped(rs) == [j \in 1..Len(rs) |-> rs[j][2]]

Max(a, b) == IF a >= b THEN a ELSE b

\* the number of items (Some results) among the results of next()
RECURSIVE Produced(_)
Produced(out) ==
    IF out = <<>> THEN 0
    ELSE (IF IsSome(Head(out)) THEN 1 ELSE 0) + Produced(Tail(out))

(***************************************************************************)
(* C1 (as claimed): get(i) returns the i-th input string when i < len(),   *)
(* and None when i >= len().                                               *)
(***************************************************************************)
C1_GetReturnsInput ==
    ret.op = "get" =>
        /\ ret.arg < len(vec) =>
              /\ ret.arg < Len(strings)
              /\ ret.val = Some(strings[ret.arg + 1])
        /\ ret.arg >= len(vec) => ret.val = None

(***************************************************************************)
(* C2 (as claimed): converting a sequence of strings into a DenseStrings   *)
(* and back yields the same sequence.                                      *)
(***************************************************************************)
C2_RoundTrip ==
    ret.op = "into_vec" => ret.val = Ok(strings)

(***************************************************************************)
(* C3 (as claimed): arrays built from the same input are equal, and arrays *)
(* built from inputs with different numbers of elements are never equal.   *)
(***************************************************************************)
C3_EqByInput ==
    ret.op = "eq" =>
        /\ strings = strings2 => ret.val = TRUE
        /\ Len(strings) # Len(strings2) => ret.val = FALSE

(***************************************************************************)
(* C4 (as claimed): two arrays that are equal have the same boundary       *)
(* offsets, and get(i) returns the same on both for every i.               *)
(***************************************************************************)
C4_EqImpliesSameBoundaries ==
    (ret.op = "eq" /\ ret.val = TRUE) =>
        /\ vec.indices = other.indices
        /\ \A i \in 0..(MaxEqStrings + 1) : get(vec, i) = get(other, i)

(***************************************************************************)
(* C5: an iterator yields exactly len() items, the k-th being get(k); its  *)
(* first None is the result of call len() + 1; iter() starts at position 0 *)
(* whatever the other iterators did.                                       *)
(***************************************************************************)
C5_IterExact ==
    /\ \A k \in IterIds : Live(k) =>
          LET out == iters[k].out
          IN  /\ Len(out) = iters[k].i
              /\ \A j \in 1..Len(out) :
                    /\ out[j] = get(vec, j - 1)
                    /\ IsSome(out[j]) <=> j <= len(vec)
                    /\ IsNone(out[j]) <=> j >= len(vec) + 1
              /\ Produced(out) = (IF Len(out) <= len(vec) THEN Len(out) ELSE len(vec))
    /\ ret.op = "iter" => iters[ret.arg] = [i |-> 0, out |-> <<>>]

C5_Witness ==
    /\ len(vec) >= 2
    /\ Live(1) /\ Live(2)
    /\ Len(iters[1].out) = len(vec) + 1
    /\ IsNone(iters[1].out[len(vec) + 1])
    /\ IsSome(iters[1].out[len(vec)])
    /\ iters[2].i = 1

(***************************************************************************)
(* C6 (as claimed): after any number of next() calls size_hint() returns   *)
(* (r, Some(r)) with r = len() minus the items already produced.           *)
(***************************************************************************)
C6_SizeHintExact ==
    ret.op = "size_hint" =>
        LET r == len(vec) - Produced(iters[ret.arg].out)
        IN  ret.val = <<"Hint", r, Some(r)>>

(***************************************************************************)
(* C7: two equal arrays feed the hasher the same values, which are the     *)
(* whole buffer and then the element count, never the boundary offsets.    *)
(***************************************************************************)
C7_HashConsistent ==
    ret.op = "hash" =>
        /\ ret.val[1] = <<vec.data, Len(vec.indices) + 1>>
        /\ ret.val[2] = <<other.data, Len(other.indices) + 1>>
        /\ eq(vec, other) => ret.val[1] = ret.val[2]

C7_Witness ==
    /\ ret.op = "hash"
    /\ eq(vec, other)
    /\ vec.indices # other.indices
    /\ vec.data # <<>>

(***************************************************************************)
(* C8: full_str() is the concatenation of the input strings in order, and  *)
(* the concatenation of get(0), ..., get(len() - 1).                       *)
(***************************************************************************)
C8_FullStrIsConcat ==
    ret.op = "full_str" =>
        /\ ret.val = Concat(strings)
        /\ \A j \in 1..len(vec) : IsSome(get(vec, j - 1))
        /\ ret.val = Concat(Unwrapped(Gets(vec, len(vec))))

C8_Witness ==
    /\ ret.op = "full_str"
    /\ Len(strings) = 4
    /\ strings[1] # <<>> /\ strings[2] = <<>> /\ strings[3] # <<>>
    /\ strings[1] # strings[3]

(***************************************************************************)
(* C9: array[i] is get(i) when i < len() and a panic exactly when          *)
(* i >= len(); the array is the one new built, before and after.           *)
(***************************************************************************)
C9_IndexPanicsOutOfRange ==
    /\ vec = new(strings)
    /\ ret.op = "index" =>
          /\ ret.arg < len(vec) =>
                /\ IsSome(get(vec, ret.arg))
                /\ ret.val = Ok(get(vec, ret.arg)[2])
          /\ IsPanic(ret.val) <=> ret.arg >= len(vec)

C9_Witness ==
    /\ ret.op = "index"
    /\ Len(strings) = 3
    /\ ret.arg = len(vec)
    /\ IsPanic(ret.val)

(***************************************************************************)
(* C10: an array built from n strings has max(n - 1, 0) offsets, offset k  *)
(* is the number of bytes of the strings 0..k, the offsets never decrease  *)
(* and lie within the buffer, and every range of get_byte_range satisfies  *)
(* start <= end <= data.len(); ["a", "", "", "b"] has offsets [1, 1, 1].   *)
(***************************************************************************)
C10_Boundaries ==
    LET n == Len(strings)
        ix == vec.indices
    IN  /\ Len(ix) = Max(n - 1, 0)
        /\ \A j \in 1..Len(ix) : ix[j] = SumLen(strings, j)
        /\ \A j \in 1..Len(ix) : 0 <= ix[j] /\ ix[j] <= Len(vec.data)
        /\ \A j \in 1..(Len(ix) - 1) : ix[j] <= ix[j + 1]
        /\ \A i \in Positions :
              LET r == get_byte_range(vec, i)
              IN  /\ IsSome(r) => r[2][1] <= r[2][2] /\ r[2][2] <= Len(vec.data)
                  /\ ~IsPanic(get(vec, i))
        /\ strings = <<(<<97>>), <<>>, <<>>, (<<98>>)>> => ix = <<1, 1, 1>>

C10_Witness ==
    /\ strings = <<(<<97>>), <<>>, <<>>, (<<98>>)>>
    /\ vec.indices = <<1, 1, 1>>
    /\ ret.op = "get" /\ ret.arg = 2 /\ ret.val = Some(<<>>)

====
